---- MODULE Spec2Model ----
(***************************************************************************)
(* A model of src/main.py (Golf Photo OCR): the numeric token extraction   *)
(* and candidate ranking of GolfOCR.extract_best_number, the configuration *)
(* validation of GolfOCR._load_config, and the batch run of                *)
(* GolfOCR.process_directory driven by main.                               *)
(*                                                                         *)
(* Texts are sequences of one-character strings.  Coordinates are          *)
(* integers; a text centre is kept as the SUM of the four corner           *)
(* coordinates (4 times the mean) and a score as the pair (d2, bonus)      *)
(* standing for the real number sqrt(d2)/4 + bonus, so that scores are     *)
(* compared exactly.  Floating point rounding of math.hypot is not         *)
(* modelled.                                                               *)
(***************************************************************************)
EXTENDS Integers, Sequences, FiniteSets, TLC

VARIABLES
    \* ---- numeric token extraction of one detection text (lines 89-104)
    text, clean_text, match, num_str, tpc,
    \* ---- extract_best_number (lines 73-127)
    ocr_results, box_center, expect_decimal, verbose, idx, candidates,
    best, printed, epc,
    \* ---- the run of main (lines 259-291): its inputs
    config, directory, mode, single_image,
    \* ---- the GolfOCR object (lines 29-35)
    labels, boxes, decimal_metrics,
    \* ---- process_directory and extract_from_image
    image_files, img, region, results, all_results, order,
    \* ---- what the run has done
    loads, saved, summary, err, pc

tokenVars   == <<text, clean_text, match, num_str, tpc>>
extractVars == <<ocr_results, box_center, expect_decimal, verbose, idx,
                 candidates, best, printed, epc>>
inputVars   == <<config, directory, mode, single_image>>
objectVars  == <<labels, boxes, decimal_metrics>>
batchVars   == <<image_files, img, region, results, all_results, order>>
runVars     == <<loads, saved, summary, err, pc>>
mainVars    == <<inputVars, objectVars, batchVars, runVars>>
vars == <<tokenVars, extractVars, mainVars>>

(***************************************************************************)
(* Bounds of the model.                                                    *)
(***************************************************************************)
MaxTextLen == 4
MaxDet == 2
MaxFiles == 2

(***************************************************************************)
(* Characters and strings.                                                 *)
(***************************************************************************)
Digits == {"0", "1", "2", "3", "4", "5", "6", "7", "8", "9"}
Signs  == {"+", "-"}
Space  == " "

IsDigit(c) == c \in Digits

\* str.strip(): leading and trailing whitespace removed (line 89).
RECURSIVE lstrip_ws(_)
lstrip_ws(s) ==
    IF s # <<>> /\ Head(s) = Space THEN lstrip_ws(Tail(s)) ELSE s

RECURSIVE rstrip_ws(_)
rstrip_ws(s) ==
    IF s # <<>> /\ s[Len(s)] = Space
    THEN rstrip_ws(SubSeq(s, 1, Len(s) - 1))
    ELSE s

strip(s) == rstrip_ws(lstrip_ws(s))

\* A digit test that asks for digits only, as str.isdigit() would.
has_digit_only(s) == s # <<>> /\ \A i \in 1..Len(s) : IsDigit(s[i])

\* re.search(r'\d', clean_text) (line 92).
has_digit(s) == \E i \in 1..Len(s) : IsDigit(s[i])

\* The greedy \d* from position k: the index of the last digit of the run
\* that starts at k, or k - 1 when there is none.
RECURSIVE digits_end(_, _)
digits_end(s, k) ==
    IF k <= Len(s) /\ IsDigit(s[k]) THEN digits_end(s, k + 1) ELSE k - 1

\* \d+\.?\d* from position d, where s[d] is a digit: greedy digits, the
\* point when it follows, greedy digits again.  The index of the last
\* character matched.
number_end(s, d) ==
    LET e1 == digits_end(s, d)
        e2 == IF e1 + 1 <= Len(s) /\ s[e1 + 1] = "." THEN e1 + 1 ELSE e1
    IN  digits_end(s, e2 + 1)

\* [+-]?\d+\.?\d* anchored at position i: the sign is taken when a digit
\* follows it; without the sign the character at i must be a digit.  The
\* index of the last character matched, 0 when there is no match at i.
match_at(s, i) ==
    IF s[i] \in Signs /\ i + 1 <= Len(s) /\ IsDigit(s[i + 1])
    THEN number_end(s, i + 1)
    ELSE IF IsDigit(s[i]) THEN number_end(s, i) ELSE 0

\* re.search(r'[+-]?\d+\.?\d*', clean_text) (line 96): the match at the
\* leftmost position that has one, as <<first, last>>; <<0, 0>> is None.
RECURSIVE search_from(_, _)
search_from(s, i) ==
    IF i > Len(s) THEN <<0, 0>>
    ELSE IF match_at(s, i) # 0 THEN <<i, match_at(s, i)>>
    ELSE search_from(s, i + 1)

re_search(s) == search_from(s, 1)

group0(s, m) == SubSeq(s, m[1], m[2])

\* str.lstrip('+-') (line 104): every leading '+' and '-' removed.
RECURSIVE lstrip_signs(_)
lstrip_signs(s) ==
    IF s # <<>> /\ Head(s) \in Signs THEN lstrip_signs(Tail(s)) ELSE s

\* The '+' put in front of the match as it is, its own sign kept.
sign_fix_nostrip(clean, num) ==
    IF (\E i \in 1..Len(clean) : clean[i] = "+") /\ (num = <<>> \/ num[1] # "+")
    THEN <<"+">> \o num
    ELSE num

\* Lines 103-104: the explicit '+' of the original text is put in front.
sign_fix(clean, num) ==
    IF (\E i \in 1..Len(clean) : clean[i] = "+") /\ (num = <<>> \/ num[1] # "+")
    THEN <<"+">> \o lstrip_signs(num)
    ELSE num

\* A text without a digit gives the empty token instead of being skipped.
token_of_noskip(t) ==
    LET clean == strip(t)
        m     == re_search(clean)
    IN  IF m = <<0, 0>> THEN <<TRUE, <<>> >>
        ELSE <<TRUE, sign_fix(clean, group0(clean, m))>>

\* Lines 89-104 for one detection text: <<TRUE, token>> when the detection
\* yields a candidate, <<FALSE, <<>> >> when the loop continues without one.
token_of(t) ==
    LET clean == strip(t)
        m     == re_search(clean)
    IN  IF ~has_digit(clean) THEN <<FALSE, <<>> >>
        ELSE IF m = <<0, 0>> THEN <<FALSE, <<>> >>
        ELSE <<TRUE, sign_fix(clean, group0(clean, m))>>

(***************************************************************************)
(* Geometry and scores (lines 106-115).                                    *)
(***************************************************************************)
\* The number of corner points of a detection's quadrilateral (line 109).
NumCorners == 4
\* The decimal preference bonus (line 114).
DecimalBonus == -10

\* Lines 107-109: the sums of the corner coordinates, NumCorners times the
\* text centre.
text_center(bbox) ==
    <<bbox[1][1] + bbox[2][1] + bbox[3][1] + bbox[4][1],
      bbox[1][2] + bbox[2][2] + bbox[3][2] + bbox[4][2]>>

\* Line 111: the square of NumCorners times math.hypot(...).  box_center is
\* kept doubled (it is (w / 2, h / 2) for integers w, h, line 164).
distance2(bbox, center) ==
    LET tc == text_center(bbox)
        dx == tc[1] - (NumCorners \div 2) * center[1]
        dy == tc[2] - (NumCorners \div 2) * center[2]
    IN  dx * dx + dy * dy

has_point(num) == \E i \in 1..Len(num) : num[i] = "."

\* The bonus with the wrong sign: a penalty.
decimal_bonus_penalty(expect, num) ==
    IF expect /\ has_point(num) THEN -DecimalBonus ELSE 0

\* Line 114.
decimal_bonus(expect, num) ==
    IF expect /\ has_point(num) THEN DecimalBonus ELSE 0

\* Line 115: the score sqrt(d2) / NumCorners + bonus.
score_of(bbox, center, expect, num) ==
    [d2 |-> distance2(bbox, center), bonus |-> decimal_bonus(expect, num)]

\* a < b for scores, exactly: sqrt(a.d2) < sqrt(b.d2) + c, where
\* c = NumCorners * (b.bonus - a.bonus).
score_less(a, b) ==
    LET c  == NumCorners * (b.bonus - a.bonus)
        k  == a.d2 - b.d2 - c * c
        kn == b.d2 - a.d2 - c * c
    IN  IF c >= 0
        THEN k < 0 \/ k * k < 4 * c * c * b.d2
        ELSE kn > 0 /\ kn * kn > 4 * c * c * a.d2

\* A candidate whose score grows with the confidence of the detection.
candidate_of_conf(det, center, expect) ==
    LET tok == token_of(det.text)
    IN  IF tok[1]
        THEN << [score   |-> [d2    |-> distance2(det.bbox, center) + det.conf,
                              bonus |-> decimal_bonus(expect, tok[2])],
                 num_str |-> tok[2],
                 conf    |-> det.conf] >>
        ELSE << >>

\* Lines 88-117 for one detection: the candidates it adds (none or one).
candidate_of(det, center, expect) ==
    LET tok == token_of(det.text)
    IN  IF tok[1]
        THEN << [score   |-> score_of(det.bbox, center, expect, tok[2]),
                 num_str |-> tok[2],
                 conf    |-> det.conf] >>
        ELSE << >>

\* An insertion that puts an element in front of its equals: not stable.
RECURSIVE insert_sorted_unstable(_, _)
insert_sorted_unstable(s, c) ==
    IF s = <<>> THEN <<c>>
    ELSE IF ~score_less(Head(s).score, c.score) THEN <<c>> \o s
    ELSE <<Head(s)>> \o insert_sorted_unstable(Tail(s), c)

\* list.sort(key=lambda x: x[0]) (line 126): ascending by score and stable,
\* an element goes behind the elements that do not compare greater.
RECURSIVE insert_sorted(_, _)
insert_sorted(s, c) ==
    IF s = <<>> THEN <<c>>
    ELSE IF score_less(c.score, Head(s).score) THEN <<c>> \o s
    ELSE <<Head(s)>> \o insert_sorted(Tail(s), c)

RECURSIVE sort_by_score(_)
sort_by_score(s) ==
    IF s = <<>> THEN <<>>
    ELSE insert_sorted(sort_by_score(SubSeq(s, 1, Len(s) - 1)), s[Len(s)])

\* Lines 86-121 as a whole: the candidates of a detection list, in order.
RECURSIVE candidates_of(_, _, _)
candidates_of(dets, center, expect) ==
    IF dets = <<>> THEN <<>>
    ELSE candidate_of(Head(dets), center, expect)
         \o candidates_of(Tail(dets), center, expect)

\* Lines 122-127.
best_candidate(cands) ==
    IF cands = <<>> THEN <<>> ELSE sort_by_score(cands)[1].num_str

\* extract_best_number as a function of its arguments and of self.verbose:
\* the value returned and the number of lines printed (line 120).
extract_best_number(dets, center, expect, verb) ==
    LET cands == candidates_of(dets, center, expect)
    IN  [ret |-> best_candidate(cands),
         out |-> IF verb THEN Len(cands) ELSE 0]

(***************************************************************************)
(* The inputs the model draws.                                             *)
(***************************************************************************)
TokenAlphabet == {"+", "-", ".", "2", "5", " ", "y"}

T123   == <<"1", "2", "3">>
T456   == <<"4", "5", ".", "6">>
Tft    == <<"f", "t">>
Tplus  == <<"+", " ", "2", ".", "5", " ", "y", "d", "s">>

TokenTexts ==
    UNION {[1..n -> TokenAlphabet] : n \in 0..MaxTextLen} \cup {Tplus, Tft}

\* Quadrilaterals: centres (15,16), (17,12), (20,12) and (27,12); from the
\* centre (12,12) of a 24 x 24 box they lie at distances 5, 5, 8 and 15.
Quads ==
    { << <<13, 15>>, <<17, 15>>, <<17, 17>>, <<13, 17>> >>,
      << <<15, 11>>, <<19, 10>>, <<19, 13>>, <<15, 14>> >>,
      << <<18, 11>>, <<22, 11>>, <<22, 13>>, <<18, 13>> >>,
      << <<25, 11>>, <<29, 11>>, <<29, 13>>, <<25, 13>> >> }

DetTexts == {T123, T456, Tft}
\* Confidences, in hundredths.
Confs == {50, 90}
\* box_center doubled: the (w, h) of the region.
BoxSizes == {<<24, 24>>, <<25, 24>>}

Detections == [bbox : Quads, text : DetTexts, conf : Confs]
DetLists == UNION {[1..n -> Detections] : n \in 0..MaxDet}

(***************************************************************************)
(* The numeric token extraction of one detection text, step by step.       *)
(***************************************************************************)
TokenIdle ==
    /\ text = <<>> /\ clean_text = <<>> /\ match = <<0, 0>>
    /\ num_str = <<>> /\ tpc = "idle"

ExtractIdle ==
    /\ ocr_results = <<>> /\ box_center = <<0, 0>> /\ expect_decimal = FALSE
    /\ verbose = FALSE /\ idx = 1 /\ candidates = <<>> /\ best = <<>>
    /\ printed = 0 /\ epc = "idle"

NoConfig == [exists |-> FALSE, json_ok |-> FALSE, has_metrics |-> FALSE,
             metrics |-> <<>>]
NoFile   == [base |-> 0, ext |-> "none"]
EmptyDict == [k \in {} |-> <<>>]

MainIdle ==
    /\ config = NoConfig /\ directory = EmptyDict /\ mode = "idle"
    /\ single_image = NoFile
    /\ labels = <<>> /\ boxes = <<>> /\ decimal_metrics = {}
    /\ image_files = <<>> /\ img = 1 /\ region = 1 /\ results = EmptyDict
    /\ all_results = EmptyDict /\ order = <<>>
    /\ loads = 0 /\ saved = FALSE /\ summary = <<>> /\ err = "none"
    /\ pc = "idle"

TokenInit ==
    /\ text \in TokenTexts
    /\ clean_text = <<>> /\ match = <<0, 0>> /\ num_str = <<>>
    /\ tpc = "strip"
    /\ ExtractIdle
    /\ MainIdle

\* Line 89.
TStrip ==
    /\ tpc = "strip"
    /\ clean_text' = strip(text)
    /\ tpc' = "digit"
    /\ UNCHANGED <<text, match, num_str, extractVars, mainVars>>

\* Lines 92-93: no digit, the detection is skipped.
TNoDigit ==
    /\ tpc = "digit"
    /\ ~has_digit(clean_text)
    /\ tpc' = "skipped"
    /\ UNCHANGED <<text, clean_text, match, num_str, extractVars, mainVars>>

\* Lines 96-98.
TSearch ==
    /\ tpc = "digit"
    /\ has_digit(clean_text)
    /\ match' = re_search(clean_text)
    /\ tpc' = IF match' = <<0, 0>> THEN "skipped" ELSE "matched"
    /\ UNCHANGED <<text, clean_text, num_str, extractVars, mainVars>>

\* Lines 100-104.
TSignFix ==
    /\ tpc = "matched"
    /\ num_str' = sign_fix(clean_text, group0(clean_text, match))
    /\ tpc' = "done"
    /\ UNCHANGED <<text, clean_text, match, extractVars, mainVars>>

TokenNext == TStrip \/ TNoDigit \/ TSearch \/ TSignFix

SpecToken == TokenInit /\ [][TokenNext]_vars

(***************************************************************************)
(* extract_best_number, one loop iteration at a time.                      *)
(***************************************************************************)
ExtractInit ==
    /\ ocr_results \in DetLists
    /\ box_center \in BoxSizes
    /\ expect_decimal \in BOOLEAN
    /\ verbose \in BOOLEAN
    /\ idx = 1 /\ candidates = <<>> /\ best = <<>> /\ printed = 0
    /\ epc = "loop"
    /\ TokenIdle
    /\ MainIdle

\* Lines 88-98: a detection that yields no token is skipped.
ELoopSkip ==
    /\ epc = "loop" /\ idx <= Len(ocr_results)
    /\ candidate_of(ocr_results[idx], box_center, expect_decimal) = <<>>
    /\ idx' = idx + 1
    /\ UNCHANGED <<ocr_results, box_center, expect_decimal, verbose,
                   candidates, best, printed, epc, tokenVars, mainVars>>

\* Lines 88-120: a detection with a token adds a candidate.
ELoopAppend ==
    /\ epc = "loop" /\ idx <= Len(ocr_results)
    /\ candidate_of(ocr_results[idx], box_center, expect_decimal) # <<>>
    /\ candidates' = candidates
           \o candidate_of(ocr_results[idx], box_center, expect_decimal)
    /\ printed' = IF verbose THEN printed + 1 ELSE printed
    /\ idx' = idx + 1
    /\ UNCHANGED <<ocr_results, box_center, expect_decimal, verbose, best,
                   epc, tokenVars, mainVars>>

\* Lines 122-123.
EReturnEmpty ==
    /\ epc = "loop" /\ idx > Len(ocr_results)
    /\ candidates = <<>>
    /\ best' = <<>>
    /\ epc' = "done"
    /\ UNCHANGED <<ocr_results, box_center, expect_decimal, verbose, idx,
                   candidates, printed, tokenVars, mainVars>>

\* Lines 126-127.
ESortReturn ==
    /\ epc = "loop" /\ idx > Len(ocr_results)
    /\ candidates # <<>>
    /\ candidates' = sort_by_score(candidates)
    /\ best' = candidates'[1].num_str
    /\ epc' = "done"
    /\ UNCHANGED <<ocr_results, box_center, expect_decimal, verbose, idx,
                   printed, tokenVars, mainVars>>

ExtractNext == ELoopSkip \/ ELoopAppend \/ EReturnEmpty \/ ESortReturn

SpecExtract == ExtractInit /\ [][ExtractNext]_vars

(***************************************************************************)
(* What the claims say, stated without the operators of the model.         *)
(***************************************************************************)
\* t has the shape: optional sign, digits, optional point, digits or none.
ClaimIsNumber(t) ==
    \E a \in 0..1 : \E b \in 1..Len(t) : \E c \in 0..1 :
        /\ a + b + c <= Len(t)
        /\ a = 1 => t[1] \in Signs
        /\ \A k \in (a + 1)..(a + b) : t[k] \in Digits
        /\ c = 1 => t[a + b + 1] = "."
        /\ \A k \in (a + b + c + 1)..Len(t) : t[k] \in Digits

ClaimMatches(s) ==
    {m \in (1..Len(s)) \X (1..Len(s)) :
        m[1] <= m[2] /\ ClaimIsNumber(SubSeq(s, m[1], m[2]))}

\* The first match: the leftmost start, and from it the longest match.
ClaimFirstMatch(s) ==
    LET M  == ClaimMatches(s)
        i0 == CHOOSE i \in {m[1] : m \in M} : \A n \in M : i <= n[1]
        j0 == CHOOSE j \in {m[2] : m \in {n \in M : n[1] = i0}} :
                  \A n \in M : n[1] = i0 => n[2] <= j
    IN  SubSeq(s, i0, j0)

ClaimHasDigit(s) == \E i \in 1..Len(s) : s[i] \in Digits
ClaimHasPlus(s)  == \E i \in 1..Len(s) : s[i] = "+"
ClaimUnsigned(t) == IF t # <<>> /\ t[1] \in Signs THEN Tail(t) ELSE t

\* The token the spec gives a text that contains a digit.
ClaimTokenOf(s) ==
    IF ClaimHasPlus(s)
    THEN <<"+">> \o ClaimUnsigned(ClaimFirstMatch(s))
    ELSE ClaimFirstMatch(s)

ClaimTokenTable ==
    [s \in {t \in DetTexts : ClaimHasDigit(t)} |-> ClaimTokenOf(s)]

ClaimToken(s) == ClaimTokenTable[s]

\* The score of detection i of ocr_results, from the claim's words: the
\* distance of the mean of the 4 corners from the box centre (here times 4,
\* squared), plus -10 for a token with a point when a decimal is expected.
ClaimMean4(q) ==
    <<q[1][1] + q[2][1] + q[3][1] + q[4][1],
      q[1][2] + q[2][2] + q[3][2] + q[4][2]>>

ClaimDist2(i) ==
    LET m  == ClaimMean4(ocr_results[i].bbox)
        dx == m[1] - 2 * box_center[1]
        dy == m[2] - 2 * box_center[2]
    IN  dx * dx + dy * dy

ClaimScore(i) ==
    [d2    |-> ClaimDist2(i),
     bonus |-> IF expect_decimal
                  /\ (\E k \in 1..Len(ClaimToken(ocr_results[i].text)) :
                          ClaimToken(ocr_results[i].text)[k] = ".")
               THEN -10 ELSE 0]

\* a < b as real numbers sqrt(d2) / 4 + bonus.
ClaimLess(a, b) ==
    LET c == 4 * (b.bonus - a.bonus)
    IN  \/ c = 0 /\ a.d2 < b.d2
        \/ c > 0 /\ (a.d2 < b.d2 + c * c
                     \/ (a.d2 - b.d2 - c * c) * (a.d2 - b.d2 - c * c)
                            < 4 * c * c * b.d2)
        \/ c < 0 /\ b.d2 > a.d2 + c * c
                 /\ (b.d2 - a.d2 - c * c) * (b.d2 - a.d2 - c * c)
                        > 4 * c * c * a.d2

\* The detections of ocr_results that yield a candidate.
ClaimCands == {i \in 1..Len(ocr_results) : ClaimHasDigit(ocr_results[i].text)}
ClaimMinimal ==
    {i \in ClaimCands :
        \A j \in ClaimCands : ~ClaimLess(ClaimScore(j), ClaimScore(i))}

\* The example of the spec: "123" at distance 5 and "45.6" at distance 8.
ClaimExample ==
    /\ Len(ocr_results) = 2
    /\ \E i, j \in 1..2 :
        /\ ocr_results[i].text = T123 /\ ClaimDist2(i) = 16 * 5 * 5
        /\ ocr_results[j].text = T456 /\ ClaimDist2(j) = 16 * 8 * 8

(***************************************************************************)
(* C1: when the detections yield a candidate, extract_best_number returns  *)
(* the token of a candidate whose score (distance of the corner mean from  *)
(* box_center, plus -10 for a decimal token when expect_decimal) is        *)
(* minimal; for "123" at distance 5 and "45.6" at distance 8 that is       *)
(* "45.6" when expect_decimal and "123" when not.                          *)
(***************************************************************************)
C1_MinimalScore ==
    (epc = "done" /\ ClaimCands # {}) =>
        /\ \E i \in ClaimMinimal : best = ClaimToken(ocr_results[i].text)
        /\ ClaimExample => best = IF expect_decimal THEN T456 ELSE T123

C1_Witness ==
    /\ epc = "done" /\ ClaimExample /\ expect_decimal /\ best = T456

(***************************************************************************)
(* C2: for a non-empty detections list with a digit in some text,          *)
(* extract_best_number returns a non-empty string that is the normalized   *)
(* token of one of the detections of the list.                             *)
(***************************************************************************)
C2_TokenOfInput ==
    (epc = "done" /\ ocr_results # <<>>
        /\ \E i \in 1..Len(ocr_results) : ClaimHasDigit(ocr_results[i].text))
    => /\ best # <<>>
       /\ \E i \in ClaimCands : best = ClaimToken(ocr_results[i].text)

C2_Witness ==
    /\ epc = "done" /\ Len(ocr_results) = 2
    /\ ocr_results[1].text = Tft /\ ocr_results[2].text = T456
    /\ best = T456

(***************************************************************************)
(* C3: extract_best_number returns the empty string when the list is empty *)
(* or no text contains a digit, and a detection without a digit never      *)
(* changes the result computed from the other detections.                  *)
(***************************************************************************)
ClaimWithDigits ==
    LET F[k \in 0..Len(ocr_results)] ==
            IF k = 0 THEN <<>>
            ELSE IF ClaimHasDigit(ocr_results[k].text)
                 THEN Append(F[k - 1], ocr_results[k])
                 ELSE F[k - 1]
    IN  F[Len(ocr_results)]

C3_NoDigitNoCandidate ==
    epc = "done" =>
        /\ ClaimCands = {} => best = <<>>
        /\ best = extract_best_number(ClaimWithDigits, box_center,
                                      expect_decimal, verbose).ret

C3_Witness ==
    /\ epc = "done" /\ Len(ocr_results) = 2
    /\ ocr_results[1].text = Tft /\ ocr_results[2].text = T123
    /\ ClaimDist2(1) < ClaimDist2(2)
    /\ best = T123

(***************************************************************************)
(* C4: when several candidates have exactly the same minimal score,        *)
(* extract_best_number returns the token of the one that comes first in    *)
(* the input list, for every order of the list.                            *)
(***************************************************************************)
C4_FirstWinsTie ==
    (epc = "done" /\ ClaimCands # {}) =>
        \E i \in ClaimMinimal :
            /\ \A j \in ClaimMinimal : i <= j
            /\ best = ClaimToken(ocr_results[i].text)

C4_Witness ==
    /\ epc = "done" /\ Len(ocr_results) = 2
    /\ ClaimMinimal = {1, 2}
    /\ ClaimToken(ocr_results[1].text) # ClaimToken(ocr_results[2].text)
    /\ ClaimScore(1).bonus # ClaimScore(2).bonus
    /\ best = ClaimToken(ocr_results[1].text)

(***************************************************************************)
(* C5: a text with a digit and a '+' anywhere yields a token that starts   *)
(* with exactly one '+' followed by the first matched number with its      *)
(* leading sign removed ("+ 2.5 yds" yields "+2.5"); a text with a digit   *)
(* and no '+' yields exactly the first match of [+-]?\d+\.?\d*, leading    *)
(* '-' kept.                                                               *)
(***************************************************************************)
C5_SignRecovery ==
    /\ (tpc \in {"done", "skipped"} /\ ClaimHasDigit(text)) => tpc = "done"
    /\ tpc = "done" =>
        /\ ClaimHasDigit(text)
        /\ ClaimHasPlus(text) =>
              /\ num_str = <<"+">> \o ClaimUnsigned(ClaimFirstMatch(text))
              /\ num_str[1] = "+" /\ num_str[2] \in Digits
        /\ ~ClaimHasPlus(text) => num_str = ClaimFirstMatch(text)
        /\ text = Tplus => num_str = <<"+", "2", ".", "5">>

C5_Witness ==
    /\ tpc = "done" /\ text = <<"-", "2", ".", "+">>
    /\ num_str = <<"+", "2", ".">>

(***************************************************************************)
(* C9: the result of extract_best_number does not depend on the            *)
(* confidences of the detections nor on the verbose flag: it is the result *)
(* of the call with every confidence replaced by one value c, for each c   *)
(* and each verbose setting (every confidence assignment is a state).      *)
(***************************************************************************)
ClaimWithConf(c) ==
    [k \in 1..Len(ocr_results) |-> [ocr_results[k] EXCEPT !.conf = c]]

C9_ConfidenceIndependent ==
    epc = "done" =>
        \A c \in Confs : \A v \in BOOLEAN :
            extract_best_number(ClaimWithConf(c), box_center,
                                expect_decimal, v).ret = best

C9_Witness ==
    /\ epc = "done" /\ Len(ocr_results) = 2 /\ verbose
    /\ ocr_results[1].conf < ocr_results[2].conf
    /\ ClaimCands = {1, 2}
    /\ best = ClaimToken(ocr_results[1].text)
    /\ best # ClaimToken(ocr_results[2].text)

(***************************************************************************)
(* The configuration (lines 21-71).  A configuration file is modelled by   *)
(* whether it exists, whether it parses, whether it has a 'metrics'        *)
(* section, and the metrics in file order: name, bbox when given, and      *)
(* expect_decimal.                                                         *)
(***************************************************************************)
\* Line 58.
RequiredMetrics == <<"DISTANCE_TO_PIN", "CARRY", "FROM_PIN", "STROKES_GAINED">>
\* Line 65: the length of a bbox.
BboxLen == 4

metric_names(metrics) == {metrics[i].name : i \in 1..Len(metrics)}
metric_entry(metrics, name) ==
    metrics[CHOOSE i \in 1..Len(metrics) : metrics[i].name = name]

\* The validation without the check of the bbox length.
RECURSIVE validate_metrics_nolen(_, _)
validate_metrics_nolen(metrics, required) ==
    IF required = <<>> THEN "ok"
    ELSE IF Head(required) \notin metric_names(metrics)
         THEN "ValueError: Missing required metric"
    ELSE IF ~metric_entry(metrics, Head(required)).has_bbox
         THEN "ValueError: Missing 'bbox' for metric"
    ELSE validate_metrics_nolen(metrics, Tail(required))

\* Lines 60-66: the first complaint about a required metric, or "ok".
RECURSIVE validate_metrics(_, _)
validate_metrics(metrics, required) ==
    IF required = <<>> THEN "ok"
    ELSE IF Head(required) \notin metric_names(metrics)
         THEN "ValueError: Missing required metric"
    ELSE IF ~metric_entry(metrics, Head(required)).has_bbox
         THEN "ValueError: Missing 'bbox' for metric"
    ELSE IF Len(metric_entry(metrics, Head(required)).bbox) # BboxLen
         THEN "ValueError: Invalid bbox format"
    ELSE validate_metrics(metrics, Tail(required))

\* _load_config (lines 42-71): the exception raised, or "ok".
load_config(cfg) ==
    IF ~cfg.exists THEN "FileNotFoundError: Configuration file not found"
    ELSE IF ~cfg.json_ok THEN "ValueError: Invalid JSON in configuration file"
    ELSE IF ~cfg.has_metrics
         THEN "ValueError: Configuration file must contain 'metrics' section"
    ELSE validate_metrics(cfg.metrics, RequiredMetrics)

\* __init__ (lines 26-35): the exception raised, or "ok".  Line 31 reads the
\* bbox of every metric of the file, required or not.
init_status(cfg) ==
    IF load_config(cfg) # "ok" THEN load_config(cfg)
    ELSE IF \E i \in 1..Len(cfg.metrics) : ~cfg.metrics[i].has_bbox
         THEN "KeyError: 'bbox'"
    ELSE "ok"

(***************************************************************************)
(* Files, globbing and sorting (lines 190-204).                            *)
(***************************************************************************)
\* Line 190, in order.
ImageExtensions == <<"png", "jpg", "jpeg", "bmp", "tiff">>

\* The order of the extensions as strings.
ExtOrder == <<"bmp", "jpeg", "jpg", "png", "tiff", "txt">>
ext_rank(e) == CHOOSE i \in 1..Len(ExtOrder) : ExtOrder[i] = e
glob_rank(e) == CHOOSE i \in 1..Len(ImageExtensions) : ImageExtensions[i] = e

is_image(f) == \E i \in 1..Len(ImageExtensions) : ImageExtensions[i] = f.ext

\* Paths compare as strings: the base name, then the extension.
path_less(f, g) ==
    \/ f.base < g.base
    \/ f.base = g.base /\ ext_rank(f.ext) < ext_rank(g.ext)

\* Lines 191-193: the matches of the patterns in the order of the patterns;
\* the order of the matches of one pattern is whatever glob.glob returns.
glob_results(dir) ==
    LET imgs == {f \in DOMAIN dir : is_image(f)}
        n    == Cardinality(imgs)
    IN  {q \in [1..n -> imgs] :
            /\ \A i, j \in 1..n : i # j => q[i] # q[j]
            /\ \A i, j \in 1..n :
                   i < j => glob_rank(q[i].ext) <= glob_rank(q[j].ext)}

\* sorted(image_files) (line 204).
RECURSIVE insert_path(_, _)
insert_path(s, f) ==
    IF s = <<>> THEN <<f>>
    ELSE IF path_less(f, Head(s)) THEN <<f>> \o s
    ELSE <<Head(s)>> \o insert_path(Tail(s), f)

RECURSIVE sorted_paths(_)
sorted_paths(s) ==
    IF s = <<>> THEN <<>>
    ELSE insert_path(sorted_paths(SubSeq(s, 1, Len(s) - 1)), s[Len(s)])

(***************************************************************************)
(* Dictionaries.                                                           *)
(***************************************************************************)
dict_set(d, k, v) ==
    [x \in (DOMAIN d) \cup {k} |-> IF x = k THEN v ELSE d[x]]

\* Line 218: the record of a failed image.
error_entry(msg) == [k \in {"error"} |-> msg]

\* The failure is printed and not recorded.
on_image_error_unrecorded(all, filename, partial, msg) == all

\* The values gathered before the failure are kept beside the error.
on_image_error_partial(all, filename, partial, msg) ==
    dict_set(all, filename, dict_set(partial, "error", msg))

\* Lines 216-218: the batch result after an image failed; the values that
\* extract_from_image had gathered for the image (partial) are lost with
\* its frame.
on_image_error(all, filename, partial, msg) ==
    dict_set(all, filename, error_entry(msg))

(***************************************************************************)
(* Images and the OCR engine.  An image is unreadable (cv2.imread returns  *)
(* None), or readable with a scene and the region at which cropping or     *)
(* OCR raises (0: none).                                                   *)
(***************************************************************************)
Unreadable == [readable |-> FALSE, scene |-> "blank", fail_at |-> 0]
FailPoints == {0, 1, 3}
ImageKinds ==
    {Unreadable} \cup
    [readable : {TRUE}, scene : {"blank", "shot"}, fail_at : FailPoints]

\* The detections of the spec's example: "123" at distance 5 and "45.6" at
\* distance 8 from the centre of a 24 x 24 crop.
ShotDetections ==
    << [bbox |-> << <<13, 15>>, <<17, 15>>, <<17, 17>>, <<13, 17>> >>,
        text |-> T123, conf |-> 90],
       [bbox |-> << <<18, 11>>, <<22, 11>>, <<22, 13>>, <<18, 13>> >>,
        text |-> T456, conf |-> 50] >>

\* self.reader.readtext(gray) (line 161).
readtext(kind) == IF kind.scene = "shot" THEN ShotDetections ELSE <<>>

\* cv2.imread (line 143) of a path: a missing file or a file that is no
\* image gives None.
image_of(dir, f) ==
    IF f \in DOMAIN dir /\ is_image(f) THEN dir[f] ELSE Unreadable

\* Lines 164-167 for region i of an image.
region_value(kind, bbox, label, decimals, verb) ==
    extract_best_number(readtext(kind), <<bbox[3], bbox[4]>>,
                        label \in decimals, verb).ret

(***************************************************************************)
(* The inputs of a run.                                                    *)
(***************************************************************************)
Entry(name, dec) ==
    [name |-> name, has_bbox |-> TRUE, bbox |-> <<0, 0, 24, 24>>,
     expect_decimal |-> dec]

BaseMetrics(D) ==
    [i \in 1..Len(RequiredMetrics) |->
        Entry(RequiredMetrics[i], RequiredMetrics[i] \in D)]

DecimalSets == {{}, {"FROM_PIN", "STROKES_GAINED"}}

\* A metric of the file that is not required: well formed, with a bbox of
\* three numbers, without a bbox.
ExtraEntries ==
    { Entry("EXTRA", FALSE),
      [Entry("EXTRA", FALSE) EXCEPT !.bbox = <<0, 0, 24>>],
      [Entry("EXTRA", FALSE) EXCEPT !.has_bbox = FALSE, !.bbox = <<>>] }

ConfigOf(metrics) ==
    [exists |-> TRUE, json_ok |-> TRUE, has_metrics |-> TRUE,
     metrics |-> metrics]

\* Required metric i of the base configuration made defective.
Remove(sq, i) == SubSeq(sq, 1, i - 1) \o SubSeq(sq, i + 1, Len(sq))
Defective(i, defect) ==
    LET m == BaseMetrics({})
    IN  CASE defect = "absent" -> Remove(m, i)
          [] defect = "nobbox" ->
                 [m EXCEPT ![i].has_bbox = FALSE, ![i].bbox = <<>>]
          [] defect = "short"  -> [m EXCEPT ![i].bbox = <<0, 0, 24>>]
          [] defect = "long"   -> [m EXCEPT ![i].bbox = <<0, 0, 24, 24, 1>>]

Configs ==
    {ConfigOf(BaseMetrics(D)) : D \in DecimalSets}
    \cup {ConfigOf(BaseMetrics(D) \o <<e>>) :
              D \in DecimalSets, e \in ExtraEntries}
    \cup {ConfigOf(Defective(i, d)) :
              i \in 1..Len(RequiredMetrics),
              d \in {"absent", "nobbox", "short", "long"}}
    \cup { NoConfig,
           [NoConfig EXCEPT !.exists = TRUE],
           [NoConfig EXCEPT !.exists = TRUE, !.json_ok = TRUE] }

FilePool ==
    { [base |-> 1, ext |-> "png"], [base |-> 2, ext |-> "png"],
      [base |-> 1, ext |-> "jpg"], [base |-> 2, ext |-> "txt"] }

\* The directories: at most MaxFiles files of the pool, each image of a kind.
Directories ==
    UNION { {d \in [S -> ImageKinds] :
                \A f \in S : ~is_image(f) => d[f] = Unreadable} :
            S \in {T \in SUBSET FilePool : Cardinality(T) <= MaxFiles} }

(***************************************************************************)
(* The run of main (lines 259-291).                                        *)
(***************************************************************************)
Init ==
    /\ config \in Configs
    /\ directory \in Directories
    /\ mode \in {"dir", "single"}
    /\ single_image \in IF mode = "single" THEN FilePool ELSE {NoFile}
    /\ labels = <<>> /\ boxes = <<>> /\ decimal_metrics = {}
    /\ image_files = <<>> /\ img = 1 /\ region = 1 /\ results = EmptyDict
    /\ all_results = EmptyDict /\ order = <<>>
    /\ loads = 0 /\ saved = FALSE /\ summary = <<>> /\ err = "none"
    /\ pc = "start"
    /\ TokenIdle
    /\ ExtractIdle

\* The image extract_from_image is working on.
current_file ==
    IF mode = "single" THEN single_image ELSE sorted_paths(image_files)[img]

\* Line 269: GolfOCR(verbose=args.verbose), lines 21-40.  An exception of
\* the constructor is not caught: the run ends.
Construct ==
    /\ pc = "start"
    /\ IF init_status(config) # "ok"
       THEN /\ pc' = "crashed"
            /\ err' = init_status(config)
            /\ UNCHANGED objectVars
       ELSE /\ labels' = [i \in 1..Len(config.metrics) |->
                              config.metrics[i].name]
            /\ boxes' = [i \in 1..Len(config.metrics) |->
                             config.metrics[i].bbox]
            /\ decimal_metrics' =
                   {config.metrics[i].name : i \in
                       {j \in 1..Len(config.metrics) :
                            config.metrics[j].expect_decimal}}
            /\ pc' = IF mode = "single" THEN "load" ELSE "list"
            /\ err' = err
    /\ UNCHANGED <<inputVars, batchVars, loads, saved, summary,
                   tokenVars, extractVars>>

\* process_directory, lines 187-201: the images are listed; without any,
\* the empty result is returned at once (line 197).
ListImages ==
    /\ pc = "list"
    /\ image_files' \in glob_results(directory)
    /\ pc' = IF image_files' = <<>> THEN "summary" ELSE "load"
    /\ all_results' = EmptyDict /\ order' = <<>> /\ img' = 1
    /\ UNCHANGED <<inputVars, objectVars, region, results, loads, saved,
                   summary, err, tokenVars, extractVars>>

\* The exception msg leaves extract_from_image: in a batch it is recorded
\* for the file and the loop goes on (lines 216-218); for a single image it
\* is printed (lines 278-279).
Raise(msg) ==
    /\ results' = EmptyDict /\ region' = 1
    /\ IF mode = "dir"
       THEN /\ all_results' =
                   on_image_error(all_results, current_file, results, msg)
            /\ order' = Append(order, current_file)
            /\ img' = img + 1
            /\ pc' = "load"
            /\ UNCHANGED summary
       ELSE /\ summary' = << <<"Error processing", msg>> >>
            /\ pc' = "exit"
            /\ UNCHANGED <<all_results, order, img>>

InImage ==
    mode = "single" \/ (mode = "dir" /\ img <= Len(image_files))

\* extract_from_image, lines 143-147: the image is read.
LoadImage ==
    /\ pc = "load" /\ InImage
    /\ image_of(directory, current_file).readable
    /\ loads' = loads + 1
    /\ results' = EmptyDict /\ region' = 1
    /\ pc' = "region"
    /\ UNCHANGED <<inputVars, objectVars, image_files, img, all_results,
                   order, saved, summary, err, tokenVars, extractVars>>

\* Lines 143-145: cv2.imread returns None and ValueError is raised.
LoadFails ==
    /\ pc = "load" /\ InImage
    /\ ~image_of(directory, current_file).readable
    /\ loads' = loads + 1
    /\ Raise(<<"Could not load image">>)
    /\ UNCHANGED <<inputVars, objectVars, image_files, saved, err,
                   tokenVars, extractVars>>

\* What stops region i of the current image, or "ok": a box that does not
\* unpack into (x, y, w, h) (line 150), a crop or OCR failure (157-161).
region_status(i) ==
    IF Len(boxes[i]) # BboxLen THEN "ValueError: unpack"
    ELSE IF image_of(directory, current_file).fail_at = i THEN "cv2.error"
    ELSE "ok"

\* Lines 150-171: one region is cropped, read and its value stored.
ExtractRegion ==
    /\ pc = "region" /\ region <= Len(boxes)
    /\ region_status(region) = "ok"
    /\ results' = dict_set(results, labels[region],
                     region_value(image_of(directory, current_file),
                                  boxes[region], labels[region],
                                  decimal_metrics, verbose))
    /\ region' = region + 1
    /\ UNCHANGED <<inputVars, objectVars, image_files, img, all_results,
                   order, runVars, tokenVars, extractVars>>

\* Lines 150-161: the region raises.
RegionFails ==
    /\ pc = "region" /\ region <= Len(boxes)
    /\ region_status(region) # "ok"
    /\ Raise(<<region_status(region)>>)
    /\ UNCHANGED <<inputVars, objectVars, image_files, loads, saved, err,
                   tokenVars, extractVars>>

\* Line 173 and lines 209-214 (batch) or 275-277 (single image).
ReturnResults ==
    /\ pc = "region" /\ region > Len(boxes)
    /\ results' = EmptyDict /\ region' = 1
    /\ IF mode = "dir"
       THEN /\ all_results' = dict_set(all_results, current_file, results)
            /\ order' = Append(order, current_file)
            /\ img' = img + 1
            /\ pc' = "load"
            /\ UNCHANGED summary
       ELSE /\ summary' = << <<"Results", results>> >>
            /\ pc' = "exit"
            /\ UNCHANGED <<all_results, order, img>>
    /\ UNCHANGED <<inputVars, objectVars, image_files, loads, saved, err,
                   tokenVars, extractVars>>

\* Lines 221-223: after the last image the results are written.
SaveResults ==
    /\ pc = "load" /\ mode = "dir" /\ img > Len(image_files)
    /\ saved' = TRUE
    /\ pc' = "summary"
    /\ UNCHANGED <<inputVars, objectVars, batchVars, loads, summary, err,
                   tokenVars, extractVars>>

\* Lines 285-286.
successful_count(all) ==
    Cardinality({f \in DOMAIN all : "error" \notin DOMAIN all[f]})
total_count(all) == Cardinality(DOMAIN all)

\* Lines 287-291: the summary.  The success rate is kept in tenths of a
\* percent; the division of line 291 raises ZeroDivisionError for total 0.
summary_lines(all) ==
    LET successful == successful_count(all)
        total      == total_count(all)
        head       == << <<"Total images", total>>,
                         <<"Successful", successful>>,
                         <<"Failed", total - successful>> >>
    IN  IF total = 0 THEN head
        ELSE Append(head, <<"Success rate", (successful * 1000) \div total>>)

Summary ==
    /\ pc = "summary"
    /\ summary' = summary_lines(all_results)
    /\ IF total_count(all_results) = 0
       THEN pc' = "crashed" /\ err' = "ZeroDivisionError"
       ELSE pc' = "exit" /\ err' = err
    /\ UNCHANGED <<inputVars, objectVars, batchVars, loads, saved,
                   tokenVars, extractVars>>

Next ==
    \/ Construct
    \/ ListImages
    \/ LoadImage
    \/ LoadFails
    \/ ExtractRegion
    \/ RegionFails
    \/ ReturnResults
    \/ SaveResults
    \/ Summary

Spec == Init /\ [][Next]_vars

(***************************************************************************)
(* What the claims about a run say, from the inputs of the run alone.      *)
(***************************************************************************)
ClaimImages ==
    {f \in DOMAIN directory :
        f.ext \in {"png", "jpg", "jpeg", "bmp", "tiff"}}

ClaimMetricNames == {config.metrics[i].name : i \in 1..Len(config.metrics)}

ClaimRequired == {"DISTANCE_TO_PIN", "CARRY", "FROM_PIN", "STROKES_GAINED"}

ClaimConfigInvalid ==
    \/ ~config.exists
    \/ ~config.json_ok
    \/ ~config.has_metrics
    \/ \E r \in ClaimRequired :
          \/ r \notin ClaimMetricNames
          \/ \E i \in 1..Len(config.metrics) :
                /\ config.metrics[i].name = r
                /\ \/ ~config.metrics[i].has_bbox
                   \/ Len(config.metrics[i].bbox) # 4

\* The regions of the configuration at which image f fails.
ClaimFailingRegions(f) ==
    {i \in 1..Len(config.metrics) :
        \/ Len(config.metrics[i].bbox) # 4
        \/ directory[f].fail_at = i}

ClaimFails(f) == ~directory[f].readable \/ ClaimFailingRegions(f) # {}

ClaimMessage(f) ==
    IF ~directory[f].readable THEN <<"Could not load image">>
    ELSE LET i == CHOOSE i \in ClaimFailingRegions(f) :
                      \A j \in ClaimFailingRegions(f) : i <= j
         IN  IF Len(config.metrics[i].bbox) # 4
             THEN <<"ValueError: unpack">> ELSE <<"cv2.error">>

\* The value of a metric of an image that does not fail.
ClaimValue(f, i) ==
    IF directory[f].scene = "blank" THEN <<>>
    ELSE IF config.metrics[i].expect_decimal THEN T456 ELSE T123

\* The entry of image f: a function of the image and the configuration,
\* whatever the other images of the directory are.
ClaimEntry(f) ==
    IF ClaimFails(f) THEN [k \in {"error"} |-> ClaimMessage(f)]
    ELSE [l \in ClaimMetricNames |->
             ClaimValue(f, CHOOSE i \in 1..Len(config.metrics) :
                               config.metrics[i].name = l)]

\* process_directory has returned.
ClaimBatchDone ==
    /\ mode = "dir"
    /\ \/ pc \in {"summary", "exit"}
       \/ pc = "crashed" /\ err = "ZeroDivisionError"

(***************************************************************************)
(* C6: in process_directory a failing image never aborts the batch: the    *)
(* images are handled in sorted path order, each image found gets exactly  *)
(* one entry, a failed image's entry is {"error": message}, and every      *)
(* entry is what the image alone determines, whether or not other images   *)
(* failed.                                                                 *)
(***************************************************************************)
C6_BatchSurvivesFailure ==
    mode = "dir" =>
        /\ \A i, j \in 1..Len(order) : i < j => path_less(order[i], order[j])
        /\ DOMAIN all_results = {order[i] : i \in 1..Len(order)}
        /\ DOMAIN all_results \subseteq ClaimImages
        /\ \A f \in ClaimImages : \A g \in DOMAIN all_results :
               path_less(f, g) => f \in DOMAIN all_results
        /\ \A f \in DOMAIN all_results : all_results[f] = ClaimEntry(f)
        /\ ClaimBatchDone => DOMAIN all_results = ClaimImages

C6_Witness ==
    /\ ClaimBatchDone /\ pc = "exit" /\ Len(order) = 2
    /\ ClaimFails(order[1]) /\ ~ClaimFails(order[2])
    /\ all_results[order[1]] = [k \in {"error"} |-> <<"cv2.error">>]
    /\ all_results[order[2]]["CARRY"] = T123

(***************************************************************************)
(* C7: every per-image result in the batch result has exactly the          *)
(* configured metric names as keys or the single key "error"; when an      *)
(* image fails at a region after earlier regions gave values, none of      *)
(* those values is in its record.                                          *)
(***************************************************************************)
C7_RecordShape ==
    \A f \in DOMAIN all_results :
        /\ \/ DOMAIN all_results[f] = ClaimMetricNames
           \/ DOMAIN all_results[f] = {"error"}
        /\ ClaimFails(f) => DOMAIN all_results[f] = {"error"}

C7_Witness ==
    \E f \in DOMAIN all_results :
        /\ directory[f].readable /\ directory[f].scene = "shot"
        /\ directory[f].fail_at = 3
        /\ DOMAIN all_results[f] = {"error"}

(***************************************************************************)
(* C8: with a configuration file that is missing, is not JSON, has no      *)
(* 'metrics' section, lacks a required metric, or gives one no bbox or a   *)
(* bbox whose length is not 4, constructing GolfOCR raises, and in that    *)
(* run no image is loaded or processed and no result file is written.      *)
(***************************************************************************)
C8_BadConfigStopsRun ==
    ClaimConfigInvalid =>
        /\ pc \in {"start", "crashed"}
        /\ pc = "crashed" => err \notin {"none", "ZeroDivisionError"}
        /\ loads = 0 /\ ~saved
        /\ DOMAIN all_results = {} /\ image_files = <<>> /\ summary = <<>>

C8_Witness ==
    /\ pc = "crashed" /\ err = "ValueError: Invalid bbox format"
    /\ mode = "dir"
    /\ \E f \in ClaimImages : directory[f].readable

(***************************************************************************)
(* C10: in directory mode main prints the complete summary (total,         *)
(* successful, failed, success rate) and ends without an unhandled         *)
(* exception for every result of process_directory, the empty one          *)
(* included; successful and failed sum to the total.                       *)
(***************************************************************************)
C10_SummaryComplete ==
    (ClaimBatchDone /\ pc # "summary") =>
        /\ pc = "exit" /\ err = "none"
        /\ Len(summary) = 4
        /\ summary[1][1] = "Total images" /\ summary[2][1] = "Successful"
        /\ summary[3][1] = "Failed" /\ summary[4][1] = "Success rate"
        /\ summary[2][2] + summary[3][2] = summary[1][2]

====
